---- MODULE Spec2Model ----
(***************************************************************************)
(* The structural-node (SNode) tree builder of taichi/ir/snode.cpp as a    *)
(* state machine.  The arena `nodes` holds every constructed SNode in      *)
(* construction order; an SNode pointer is an index into it, 0 is nullptr. *)
(* A fatal failure (TI_ASSERT / TI_ERROR) throws: the handler stops where   *)
(* it failed and whatever it had already mutated stays mutated.  Nothing   *)
(* in this file catches the failure, so it ends the build: no call follows *)
(* a failed call.                                                          *)
(***************************************************************************)
EXTENDS Integers, Sequences, FiniteSets, TLC

VARIABLES
  nodes,      \* arena of SNode objects, in construction order
  snode,      \* GlobalVariableExpression::snode per field (0 = nullptr)
  counter,    \* SNode::counter
  placing_shared_exp,                 \* builder-session flag
  currently_placing_exp_snode,        \* session's exponent node (0 = nullptr)
  currently_placing_exp_snode_dtype,  \* its exponent type ("none" = unset)
  compiled,   \* the structure compiler has run: parent links are set
  nodes_at_begin,  \* history: Len(nodes) at the begin of the active session
  last,       \* the last call made: operation, arguments, outcome
  pc,         \* per constructing thread: position inside SNode::SNode
  tmp         \* per constructing thread: value fetched from the counter

vars == <<nodes, snode, counter, placing_shared_exp,
          currently_placing_exp_snode, currently_placing_exp_snode_dtype,
          compiled, nodes_at_begin, last, pc, tmp>>

----------------------------------------------------------------------------
(* Bounds of the model *)

\* most SNode objects in a tree of the builder specification
MaxNodes == 5
\* most SNode objects in a tree of the tree specification
MaxTreeNodes == 4
\* most SNode objects in a tree of the query specification
MaxQueryNodes == 4
\* most SNode objects in a tree of the shape specification
MaxShapeNodes == 2
\* most SNode objects constructed by the concurrent constructors
MaxCtorNodes == 4
\* most SNode objects in a tree of the session specification
MaxSessionNodes == 6
\* most SNode objects in a tree of the gradient specification
MaxGradNodes == 7
\* most dense nodes in a tree of the gradient specification
MaxGradDenseNodes == 2
\* number of axis slots of the extractor array
NumAxes == 2

Axes == 0 .. (NumAxes - 1)
Threads == {1, 2, 3}

----------------------------------------------------------------------------
(* Small sequence helpers *)

RECURSIVE SeqProduct(_)
SeqProduct(s) == IF s = <<>> THEN 1 ELSE Head(s) * SeqProduct(Tail(s))

Range(s) == {s[i] : i \in 1 .. Len(s)}

----------------------------------------------------------------------------
(* bit:: helpers *)

RECURSIVE least_pot_bound_from(_, _)
least_pot_bound_from(v, p) == IF p >= v THEN p ELSE least_pot_bound_from(v, 2 * p)

\* least power of two >= v
least_pot_bound(v) == least_pot_bound_from(v, 1)

is_power_of_two(v) == v > 0 /\ least_pot_bound(v) = v

RECURSIVE log2int(_)
log2int(v) == IF v <= 1 THEN 0 ELSE 1 + log2int(v \div 2)

----------------------------------------------------------------------------
(* Node kinds and the SNode object *)

SNodeType == {"root", "dense", "pointer", "hash", "bitmasked", "dynamic",
              "bit_struct", "bit_array", "place", "undefined"}

\* SNode::need_activation, on the node's kind
need_activation(t) == t \in {"pointer", "hash", "bitmasked", "dynamic"}

\* an Extractor in its default state
InactiveExtractor == [active |-> FALSE, num_bits |-> 0, num_elements |-> 1]

\* Extractor::activate
activate(e, bits) == [e EXCEPT !.active = TRUE, !.num_bits = bits]

\* value of the counter after `id = counter++`
counter_post_increment(c) == c + 1

\* SNode::SNode(int depth, SNodeType t), given the value fetched from counter
SNodeCtor(fetched, depth, t) ==
  [id |-> fetched, type |-> t, depth |-> depth, ch |-> <<>>, parent |-> 0,
   n |-> 1, extractors |-> [a \in Axes |-> InactiveExtractor],
   is_path_all_dense |-> TRUE, expr |-> 0, dt |-> "gen",
   exp_snode |-> 0, exponent_users |-> <<>>,
   owns_shared_exponent |-> FALSE, index_offsets |-> <<>>,
   chunk_size |-> 0, physical_type |-> 0]

----------------------------------------------------------------------------
(* The machine state a handler works on: the mutable program state plus    *)
(* `ok` (FALSE once a fatal failure was thrown) and `ret` (the node a       *)
(* handler returns).                                                        *)

Machine == [nodes |-> nodes, snode |-> snode, counter |-> counter,
            placing |-> placing_shared_exp,
            cur |-> currently_placing_exp_snode,
            curdt |-> currently_placing_exp_snode_dtype,
            ok |-> TRUE, ret |-> 0]

Fatal(M) == [M EXCEPT !.ok = FALSE, !.ret = 0]

\* an insert_children that derives is_path_all_dense from the new node's
\* kind alone
insert_children_own_kind_only(M, p, t) ==
  IF t = "root" THEN Fatal(M)
  ELSE
    LET new_idx == Len(M.nodes) + 1
        new_ch == [SNodeCtor(M.counter, M.nodes[p].depth + 1, t) EXCEPT
                     !.is_path_all_dense = ~need_activation(t)]
    IN [M EXCEPT !.nodes = Append([M.nodes EXCEPT ![p].ch = Append(@, new_idx)],
                                  new_ch),
                 !.counter = counter_post_increment(M.counter),
                 !.ret = new_idx]

\* SNode::insert_children, called on node p
insert_children(M, p, t) ==
  IF t = "root" THEN Fatal(M)
  ELSE
    LET new_idx == Len(M.nodes) + 1
        new_ch == [SNodeCtor(M.counter, M.nodes[p].depth + 1, t) EXCEPT
                     !.is_path_all_dense =
                        (M.nodes[p].is_path_all_dense /\ ~need_activation(t))]
    IN [M EXCEPT !.nodes = Append([M.nodes EXCEPT ![p].ch = Append(@, new_idx)],
                                  new_ch),
                 !.counter = counter_post_increment(M.counter),
                 !.ret = new_idx]

\* a broadcast that gives the single size to the first listed axis only
broadcast_sizes_first_axis_only(indices, sizes) ==
  IF Len(sizes) = 1
  THEN [i \in 1 .. Len(indices) |-> IF i = 1 THEN sizes[1] ELSE 1]
  ELSE sizes

\* the sizes create_node works with after its broadcast step
broadcast_sizes(indices, sizes) ==
  IF Len(sizes) = 1 THEN [i \in 1 .. Len(indices) |-> sizes[1]] ELSE sizes

\* a create_node that multiplies the requested size in unpromoted
promoted_size_not_promoted(s) == s

\* one size as the first loop of create_node accumulates it into n
promoted_size(s) == IF ~is_power_of_two(s) THEN least_pot_bound(s) ELSE s

\* first loop of create_node: the index of the first size that is not
\* positive (0 when every size passes TI_ASSERT(sizes[i] > 0))
FirstBadSize(sizes) ==
  IF \E i \in 1 .. Len(sizes) : sizes[i] <= 0
  THEN CHOOSE i \in 1 .. Len(sizes) :
         sizes[i] <= 0 /\ \A j \in 1 .. (i - 1) : sizes[j] > 0
  ELSE 0

\* first loop of create_node: n after multiplying in the first k sizes
n_after(sizes, k) == SeqProduct([i \in 1 .. k |-> promoted_size(sizes[i])])

\* second loop of create_node: the extractors after visiting the first k
\* entries of the axis list, later entries overwriting earlier ones
RECURSIVE extractors_after(_, _, _, _)
extractors_after(ex, indices, sizes, k) ==
  IF k = 0 THEN ex
  ELSE LET prev == extractors_after(ex, indices, sizes, k - 1)
       IN [prev EXCEPT ![indices[k]] =
             [activate(@, log2int(least_pot_bound(sizes[k])))
                EXCEPT !.num_elements = sizes[k]]]

\* create_node without its hash check
hash_below_root_unchecked(M, p, t) == FALSE

\* the hash check of create_node fails: a hash node asked of a caller that
\* is not at depth 0
hash_below_root(M, p, t) == t = "hash" /\ M.nodes[p].depth # 0

\* SNode::create_node, called on node p
create_node(M, p, indices, sizes0, t) ==
  IF ~(Len(indices) = Len(sizes0) \/ Len(sizes0) = 1) THEN Fatal(M)
  ELSE
    LET sizes == broadcast_sizes(indices, sizes0) IN
    IF hash_below_root(M, p, t) THEN Fatal(M)
    ELSE
      LET M1 == insert_children(M, p, t) IN
      IF ~M1.ok THEN M1
      ELSE
        LET c == M1.ret
            bad == FirstBadSize(sizes)
        IN IF bad # 0
           THEN Fatal([M1 EXCEPT !.nodes[c].n = n_after(sizes, bad - 1)])
           ELSE [M1 EXCEPT
                   !.nodes[c].n = n_after(sizes, Len(sizes)),
                   !.nodes[c].extractors =
                      extractors_after(@, indices, sizes, Len(indices))]

\* SNode::dense
dense(M, p, indices, sizes) == create_node(M, p, indices, sizes, "dense")

\* SNode::dynamic, called on node p
dynamic(M, p, axis, n, chunk_size) ==
  LET M1 == create_node(M, p, <<axis>>, <<n>>, "dynamic") IN
  IF ~M1.ok THEN M1 ELSE [M1 EXCEPT !.nodes[M1.ret].chunk_size = chunk_size]

\* SNode::bit_struct, called on node p
bit_struct(M, p, num_bits) ==
  LET M1 == create_node(M, p, <<>>, <<>>, "bit_struct") IN
  IF ~M1.ok THEN M1 ELSE [M1 EXCEPT !.nodes[M1.ret].physical_type = num_bits]

\* SNode::bit_array, called on node p
bit_array(M, p, indices, sizes, bits) ==
  LET M1 == create_node(M, p, indices, sizes, "bit_array") IN
  IF ~M1.ok THEN M1 ELSE [M1 EXCEPT !.nodes[M1.ret].physical_type = bits]

----------------------------------------------------------------------------
(* Field expressions handed in by the field-declaration layer.  Field 0 is *)
(* the empty Expr.                                                         *)

\* x, y: custom floats sharing exponent type exp_a; z: custom float with
\* exponent type exp_b; w: f32 with the declared adjoint wg; v: f32 with
\* the declared adjoint vg
Fields == 1 .. 7

FieldDt(f) ==
  CASE f = 1 -> "cf_a" [] f = 2 -> "cf_a" [] f = 3 -> "cf_b" [] OTHER -> "f32"

FieldIsPrimal(f) == f \notin {5, 7}

FieldAdjoint(f) == IF f = 4 THEN 5 ELSE IF f = 6 THEN 7 ELSE 0

\* CustomFloatType::get_exponent_type on a field's type ("none": the type
\* is no custom float, or has no exponent)
get_exponent_type(dt) ==
  CASE dt = "cf_a" -> "exp_a" [] dt = "cf_b" -> "exp_b" [] OTHER -> "none"

\* needs_grad: real-valued types get gradients
needs_grad(dt) == dt \in {"f32", "cf_a", "cf_b"}

----------------------------------------------------------------------------
(* Field placement *)

\* a place without its "has been placed" check
already_placed_unchecked(M, f) == FALSE

\* TI_ERROR_IF(expr->snode != nullptr, ...) of SNode::place
already_placed(M, f) == M.snode[f] # 0

\* the reuse test of SNode::place
reuse_existing_exponent(M) == M.placing /\ M.cur # 0

\* a place that reuses the exponent node whatever its type
exponent_type_mismatch_unchecked(M, exp) == FALSE

\* the TI_ASSERT_INFO of the reuse branch fails
exponent_type_mismatch(M, exp) == M.curdt # exp

\* a place that records only the latest user of an exponent node
push_exponent_user_overwriting(users, child) == <<child>>

\* new_exp_snode->exponent_users.push_back(&child)
push_exponent_user(users, child) == Append(users, child)

\* a place that finds the field bound only after it has inserted a leaf
place_here_checking_late(M, s, f, offset) ==
  IF f = 0 THEN Fatal(M)
  ELSE IF already_placed(M, f) THEN Fatal(insert_children(M, s, "place"))
  ELSE
    LET exp == get_exponent_type(FieldDt(f)) IN
    IF exp # "none" /\ reuse_existing_exponent(M)
         /\ exponent_type_mismatch(M, exp)
    THEN Fatal(M)
    ELSE
      LET fresh == exp # "none" /\ ~reuse_existing_exponent(M)
          M1 == IF fresh
                THEN LET I == insert_children(M, s, "place")
                     IN [I EXCEPT !.nodes[I.ret].dt = exp,
                                  !.cur = IF M.placing THEN I.ret ELSE @,
                                  !.curdt = IF M.placing THEN exp ELSE @]
                ELSE M
          new_exp_snode == IF exp = "none" THEN 0
                           ELSE IF fresh THEN M1.ret ELSE M.cur
          M2 == insert_children(M1, s, "place")
          child == M2.ret
          bound == [M2 EXCEPT
                      !.snode[f] = child,
                      !.nodes[child].expr = f,
                      !.nodes[child].owns_shared_exponent = M.placing,
                      !.nodes[child].dt = FieldDt(f),
                      !.nodes[child].exp_snode = new_exp_snode,
                      !.nodes[child].index_offsets = offset]
      IN IF new_exp_snode = 0 THEN bound
         ELSE [bound EXCEPT
                 !.nodes[new_exp_snode].exponent_users =
                    push_exponent_user(@, child)]

\* the else-branch of SNode::place, lines 30-72, on the non-root node s
place_here(M, s, f, offset) ==
  IF f = 0 THEN Fatal(M)
  ELSE IF already_placed(M, f) THEN Fatal(M)
  ELSE
    LET exp == get_exponent_type(FieldDt(f)) IN
    IF exp # "none" /\ reuse_existing_exponent(M)
         /\ exponent_type_mismatch(M, exp)
    THEN Fatal(M)
    ELSE
      LET fresh == exp # "none" /\ ~reuse_existing_exponent(M)
          M1 == IF fresh
                THEN LET I == insert_children(M, s, "place")
                     IN [I EXCEPT !.nodes[I.ret].dt = exp,
                                  !.cur = IF M.placing THEN I.ret ELSE @,
                                  !.curdt = IF M.placing THEN exp ELSE @]
                ELSE M
          new_exp_snode == IF exp = "none" THEN 0
                           ELSE IF fresh THEN M1.ret ELSE M.cur
          M2 == insert_children(M1, s, "place")
          child == M2.ret
          bound == [M2 EXCEPT
                      !.snode[f] = child,
                      !.nodes[child].expr = f,
                      !.nodes[child].owns_shared_exponent = M.placing,
                      !.nodes[child].dt = FieldDt(f),
                      !.nodes[child].exp_snode = new_exp_snode,
                      !.nodes[child].index_offsets = offset]
      IN IF new_exp_snode = 0 THEN bound
         ELSE [bound EXCEPT
                 !.nodes[new_exp_snode].exponent_users =
                    push_exponent_user(@, child)]

\* a place that puts the leaves under the root itself
place_without_redirect(M, s, f, offset) == place_here(M, s, f, offset)

\* SNode::place, called on node s
place(M, s, f, offset) ==
  IF M.nodes[s].type = "root"
  THEN LET M1 == dense(M, s, <<>>, <<>>)
       IN IF ~M1.ok THEN M1 ELSE place_here(M1, M1.ret, f, offset)
  ELSE place_here(M, s, f, offset)

\* a begin that does not refuse a session in progress
begin_shared_exp_placement_reentrant(M) == [M EXCEPT !.placing = TRUE]

\* SNode::begin_shared_exp_placement
begin_shared_exp_placement(M) ==
  IF M.placing THEN Fatal(M)
  ELSE IF M.cur # 0 THEN Fatal(M)
  ELSE [M EXCEPT !.placing = TRUE]

\* an end that forgets the remembered exponent node
end_shared_exp_placement_keeps_node(M) ==
  IF ~M.placing THEN Fatal(M)
  ELSE IF M.cur = 0 THEN Fatal(M)
  ELSE [M EXCEPT !.placing = FALSE]

\* SNode::end_shared_exp_placement
end_shared_exp_placement(M) ==
  IF ~M.placing THEN Fatal(M)
  ELSE IF M.cur = 0 THEN Fatal(M)
  ELSE [M EXCEPT !.cur = 0, !.placing = FALSE]

----------------------------------------------------------------------------
(* Gradient mirroring *)

\* SNode::is_primal on node c: [ok, val], ok = FALSE when its TI_ASSERT fails
is_primal(M, c) ==
  IF M.nodes[c].expr = 0 THEN [ok |-> FALSE, val |-> FALSE]
  ELSE [ok |-> TRUE, val |-> FieldIsPrimal(M.nodes[c].expr)]

\* a has_grad that does not see the bound adjoint
has_grad_never(M, c) == FALSE

\* SNode::has_grad on node c, which has a bound field
has_grad(M, c) ==
  LET adjoint == FieldAdjoint(M.nodes[c].expr)
  IN is_primal(M, c).val /\ adjoint # 0 /\ M.snode[adjoint] # 0

\* the condition of the collecting loop of SNode::lazy_grad on child c:
\* [ok, val], ok = FALSE when evaluating it fails fatally
collects_grad(M, c) ==
  IF M.nodes[c].type # "place" THEN [ok |-> TRUE, val |-> FALSE]
  ELSE IF ~is_primal(M, c).ok THEN [ok |-> FALSE, val |-> FALSE]
  ELSE [ok |-> TRUE,
        val |-> is_primal(M, c).val /\ needs_grad(M.nodes[c].dt)
                  /\ ~has_grad(M, c)]

\* a collecting loop that puts each adjoint in front of new_grads
RECURSIVE collect_new_grads_newest_first(_, _)
collect_new_grads_newest_first(M, chs) ==
  IF chs = <<>> THEN [ok |-> TRUE, grads |-> <<>>]
  ELSE LET c == collects_grad(M, Head(chs)) IN
       IF ~c.ok THEN [ok |-> FALSE, grads |-> <<>>]
       ELSE LET rest == collect_new_grads_newest_first(M, Tail(chs))
            IN [ok |-> rest.ok,
                grads |-> IF c.val
                          THEN rest.grads
                                 \o <<FieldAdjoint(M.nodes[Head(chs)].expr)>>
                          ELSE rest.grads]

\* the collecting loop of SNode::lazy_grad over the children chs:
\* [ok, grads], grads the adjoints pushed to new_grads before any failure
RECURSIVE collect_new_grads(_, _)
collect_new_grads(M, chs) ==
  IF chs = <<>> THEN [ok |-> TRUE, grads |-> <<>>]
  ELSE LET c == collects_grad(M, Head(chs)) IN
       IF ~c.ok THEN [ok |-> FALSE, grads |-> <<>>]
       ELSE LET rest == collect_new_grads(M, Tail(chs))
            IN [ok |-> rest.ok,
                grads |-> IF c.val
                          THEN <<FieldAdjoint(M.nodes[Head(chs)].expr)>>
                                 \o rest.grads
                          ELSE rest.grads]

\* the placing loop of SNode::lazy_grad on node s
RECURSIVE place_new_grads(_, _, _)
place_new_grads(M, s, grads) ==
  IF grads = <<>> \/ ~M.ok THEN M
  ELSE place_new_grads(place(M, s, Head(grads), <<>>), s, Tail(grads))

\* SNode::lazy_grad, called on node s.  lazy_grad_children is its first
\* loop over the children chs of s.
RECURSIVE lazy_grad(_, _)
RECURSIVE lazy_grad_children(_, _)
lazy_grad_children(M, chs) ==
  IF chs = <<>> \/ ~M.ok THEN M
  ELSE lazy_grad_children(lazy_grad(M, Head(chs)), Tail(chs))

lazy_grad(M, s) ==
  IF M.nodes[s].type = "place" THEN M
  ELSE
    LET M1 == lazy_grad_children(M, M.nodes[s].ch) IN
    IF ~M1.ok THEN M1
    ELSE LET col == collect_new_grads(M1, M1.nodes[s].ch) IN
         IF ~col.ok THEN Fatal(M1)
         ELSE place_new_grads(M1, s, col.grads)

----------------------------------------------------------------------------
(* Ancestor queries *)

\* a walk that starts at the parent instead of at the node itself
RECURSIVE walk_to_sparse(_, _)
get_least_sparse_ancestor_strict(ns, s) ==
  IF ns[s].is_path_all_dense THEN 0
  ELSE IF ns[s].parent = 0 THEN -1
  ELSE walk_to_sparse(ns, ns[s].parent)

\* the while loop of SNode::get_least_sparse_ancestor, result at node r:
\* the node found, or -1 when TI_ASSERT(result) fails
walk_to_sparse(ns, r) ==
  IF need_activation(ns[r].type) THEN r
  ELSE IF ns[r].parent = 0 THEN -1
  ELSE walk_to_sparse(ns, ns[r].parent)

\* SNode::get_least_sparse_ancestor on node s: 0 is nullptr, -1 a fatal
\* failure
get_least_sparse_ancestor(ns, s) ==
  IF ns[s].is_path_all_dense THEN 0 ELSE walk_to_sparse(ns, s)

\* the node that owns s in its children list (0 for a node nobody owns)
Owner(ns, s) ==
  IF \E p \in 1 .. Len(ns) : s \in Range(ns[p].ch)
  THEN CHOOSE p \in 1 .. Len(ns) : s \in Range(ns[p].ch)
  ELSE 0

\* the structure compiler's pass that fixes the parent links
set_parents(ns) == [i \in 1 .. Len(ns) |-> [ns[i] EXCEPT !.parent = Owner(ns, i)]]

----------------------------------------------------------------------------
(* The builder as a state machine *)

NodeIds == 1 .. Len(nodes)

\* no call made yet; the shape of every record of a call: the operation,
\* its receiver, its arguments, whether it returned (ok) and what (res)
NoCall == [op |-> "none", node |-> 0, field |-> 0, type |-> "none",
           indices |-> <<>>, sizes |-> <<>>, ok |-> TRUE, res |-> 0]

\* the program state after a handler ran to M, within the arena bound max
Commit(M, max) ==
  /\ Len(M.nodes) <= max
  /\ nodes' = M.nodes
  /\ snode' = M.snode
  /\ counter' = M.counter
  /\ placing_shared_exp' = M.placing
  /\ currently_placing_exp_snode' = M.cur
  /\ currently_placing_exp_snode_dtype' = M.curdt

\* program start: the root node exists, nothing is placed, no session
Init ==
  /\ nodes = <<SNodeCtor(0, 0, "root")>>
  /\ snode = [f \in Fields |-> 0]
  /\ counter = 1
  /\ placing_shared_exp = FALSE
  /\ currently_placing_exp_snode = 0
  /\ currently_placing_exp_snode_dtype = "none"
  /\ compiled = FALSE
  /\ nodes_at_begin = 0
  /\ last = NoCall
  /\ pc = [t \in Threads |-> "idle"]
  /\ tmp = [t \in Threads |-> 0]

\* the tree is under construction and no call has failed
Building == ~compiled /\ last.ok

\* dense / pointer / hash / bitmasked (indices, sizes) on node p
CreateNode(p, indices, sizes, t, max) ==
  /\ Building
  /\ Len(nodes) < max
  /\ LET M == create_node(Machine, p, indices, sizes, t)
     IN /\ Commit(M, max)
        /\ last' = [NoCall EXCEPT !.op = "create_node", !.node = p,
                  !.type = t, !.indices = indices, !.sizes = sizes,
                  !.ok = M.ok, !.res = M.ret]
  /\ UNCHANGED <<compiled, nodes_at_begin, pc, tmp>>

Dynamic(p, axis, n, chunk_size, max) ==
  /\ Building
  /\ Len(nodes) < max
  /\ LET M == dynamic(Machine, p, axis, n, chunk_size)
     IN /\ Commit(M, max)
        /\ last' = [NoCall EXCEPT !.op = "create_node", !.node = p,
                  !.type = "dynamic", !.indices = <<axis>>, !.sizes = <<n>>,
                  !.ok = M.ok, !.res = M.ret]
  /\ UNCHANGED <<compiled, nodes_at_begin, pc, tmp>>

BitStruct(p, num_bits, max) ==
  /\ Building
  /\ Len(nodes) < max
  /\ LET M == bit_struct(Machine, p, num_bits)
     IN /\ Commit(M, max)
        /\ last' = [NoCall EXCEPT !.op = "create_node", !.node = p,
                  !.type = "bit_struct", !.ok = M.ok, !.res = M.ret]
  /\ UNCHANGED <<compiled, nodes_at_begin, pc, tmp>>

BitArray(p, indices, sizes, bits, max) ==
  /\ Building
  /\ Len(nodes) < max
  /\ LET M == bit_array(Machine, p, indices, sizes, bits)
     IN /\ Commit(M, max)
        /\ last' = [NoCall EXCEPT !.op = "create_node", !.node = p,
                  !.type = "bit_array", !.indices = indices, !.sizes = sizes,
                  !.ok = M.ok, !.res = M.ret]
  /\ UNCHANGED <<compiled, nodes_at_begin, pc, tmp>>

\* place(f, offset) on node p, in an arena of at most max nodes
PlaceWithin(p, f, offset, max) ==
  /\ Building
  /\ LET M == place(Machine, p, f, offset)
     IN /\ Commit(M, max)
        /\ last' = [NoCall EXCEPT !.op = "place", !.node = p, !.field = f,
                  !.ok = M.ok, !.res = M.ret]
  /\ UNCHANGED <<compiled, nodes_at_begin, pc, tmp>>

Place(p, f, offset) == PlaceWithin(p, f, offset, MaxNodes)

LazyGrad(p) ==
  /\ Building
  /\ LET M == lazy_grad(Machine, p)
     IN /\ Commit(M, MaxNodes)
        /\ last' = [NoCall EXCEPT !.op = "lazy_grad", !.node = p, !.ok = M.ok]
  /\ UNCHANGED <<compiled, nodes_at_begin, pc, tmp>>

BeginSharedExpPlacement ==
  /\ Building
  /\ LET M == begin_shared_exp_placement(Machine)
     IN /\ Commit(M, MaxNodes)
        /\ last' = [NoCall EXCEPT !.op = "begin", !.ok = M.ok]
        /\ nodes_at_begin' = IF M.ok THEN Len(nodes) ELSE nodes_at_begin
  /\ UNCHANGED <<compiled, pc, tmp>>

EndSharedExpPlacement ==
  /\ Building
  /\ LET M == end_shared_exp_placement(Machine)
     IN /\ Commit(M, MaxNodes)
        /\ last' = [NoCall EXCEPT !.op = "end", !.ok = M.ok]
        /\ nodes_at_begin' = IF M.ok THEN 0 ELSE nodes_at_begin
  /\ UNCHANGED <<compiled, pc, tmp>>

\* the structure compiler runs: parent links are set, the tree is frozen
Compile ==
  /\ Building
  /\ compiled' = TRUE
  /\ nodes' = set_parents(nodes)
  /\ last' = [NoCall EXCEPT !.op = "compile"]
  /\ UNCHANGED <<snode, counter, placing_shared_exp,
                 currently_placing_exp_snode,
                 currently_placing_exp_snode_dtype, nodes_at_begin,
                 pc, tmp>>

\* a consumer asks for the least sparse ancestor of node s
GetLeastSparseAncestor(s) ==
  /\ last.ok
  /\ LET r == get_least_sparse_ancestor(nodes, s)
     IN last' = [NoCall EXCEPT !.op = "get_least_sparse_ancestor",
                     !.node = s, !.ok = (r # -1),
                     !.res = IF r = -1 THEN 0 ELSE r]
  /\ UNCHANGED <<nodes, snode, counter, placing_shared_exp,
                 currently_placing_exp_snode,
                 currently_placing_exp_snode_dtype, compiled,
                 nodes_at_begin, pc, tmp>>

\* kinds made through the plain create_node wrappers
WrapperKinds == {"dense", "pointer", "hash", "bitmasked"}

\* the fields x, y, z, w and wg
BuilderFields == 1 .. 5

\* placement, sessions and gradient mirroring under dense nodes
Next ==
  \/ \E p \in NodeIds : CreateNode(p, <<0>>, <<3>>, "dense", MaxNodes)
  \/ \E p \in NodeIds, f \in BuilderFields : Place(p, f, <<>>)
  \/ \E p \in NodeIds : LazyGrad(p)
  \/ BeginSharedExpPlacement
  \/ EndSharedExpPlacement

Spec == Init /\ [][Next]_vars

\* trees of every kind
NextTree ==
  \/ \E p \in NodeIds, t \in WrapperKinds :
       CreateNode(p, <<0>>, <<3>>, t, MaxTreeNodes)
  \/ \E p \in NodeIds : Dynamic(p, 0, 4, 2, MaxTreeNodes)
  \/ \E p \in NodeIds : BitStruct(p, 32, MaxTreeNodes)
  \/ \E p \in NodeIds : BitArray(p, <<0>>, <<4>>, 1, MaxTreeNodes)

SpecTree == Init /\ [][NextTree]_vars

\* the rest of the program state, which a constructor leaves alone
CtorFrame ==
  UNCHANGED <<snode, placing_shared_exp, currently_placing_exp_snode,
              currently_placing_exp_snode_dtype, compiled, nodes_at_begin,
              last>>

\* `counter++` done as a separate load and store
CtorFetchTorn(t) ==
  \/ /\ pc[t] = "idle"
     /\ Len(nodes) + Cardinality({u \in Threads : pc[u] # "idle"}) < MaxCtorNodes
     /\ tmp' = [tmp EXCEPT ![t] = counter]
     /\ pc' = [pc EXCEPT ![t] = "loaded"]
     /\ UNCHANGED <<nodes, counter>>
     /\ CtorFrame
  \/ /\ pc[t] = "loaded"
     /\ counter' = counter_post_increment(tmp[t])
     /\ pc' = [pc EXCEPT ![t] = "fetched"]
     /\ UNCHANGED <<nodes, tmp>>
     /\ CtorFrame

\* thread t enters SNode::SNode and executes `counter++` on the atomic
\* counter: one indivisible fetch-and-add
CtorFetch(t) ==
  /\ pc[t] = "idle"
  /\ Len(nodes) + Cardinality({u \in Threads : pc[u] # "idle"}) < MaxCtorNodes
  /\ tmp' = [tmp EXCEPT ![t] = counter]
  /\ counter' = counter_post_increment(counter)
  /\ pc' = [pc EXCEPT ![t] = "fetched"]
  /\ UNCHANGED nodes
  /\ CtorFrame

\* thread t stores the fetched value into id and finishes the constructor
\* of a node of kind k at depth d
CtorStore(t, d, k) ==
  /\ pc[t] = "fetched"
  /\ nodes' = Append(nodes, SNodeCtor(tmp[t], d, k))
  /\ pc' = [pc EXCEPT ![t] = "idle"]
  /\ UNCHANGED <<counter, tmp>>
  /\ CtorFrame

\* several threads construct the roots of unrelated trees and nodes of the
\* default constructor
NextIds ==
  \/ \E t \in Threads : CtorFetch(t)
  \/ \E t \in Threads, k \in {"root", "undefined"} : CtorStore(t, 0, k)

SpecIds == Init /\ [][NextIds]_vars

\* axis lists and size lists handed to create_node, valid and invalid
IndexLists == {<<>>, <<0>>, <<1>>, <<0, 1>>, <<1, 0>>, <<0, 0>>}

SizeLists == {<<>>, <<1>>, <<3>>, <<10>>, <<0>>, <<3, 4>>, <<10, 1>>,
              <<5, 8>>, <<2, 0>>}

\* one level of nodes of every shape
NextShape ==
  \E p \in NodeIds, t \in WrapperKinds, indices \in IndexLists,
     sizes \in SizeLists :
       CreateNode(p, indices, sizes, t, MaxShapeNodes)

SpecShape == Init /\ [][NextShape]_vars

\* the nodes that are no place nodes
Containers == {p \in NodeIds : nodes[p].type # "place"}

\* the custom-float fields x, y (exponent type exp_a) and z (exp_b)
CustomFloatFields == {1, 2, 3}

\* sessions of custom-float placements made on the root and on dense nodes
NextSession ==
  \/ \E p \in Containers :
       CreateNode(p, <<0>>, <<3>>, "dense", MaxSessionNodes)
  \/ \E p \in Containers, f \in CustomFloatFields :
       PlaceWithin(p, f, <<>>, MaxSessionNodes)
  \/ BeginSharedExpPlacement
  \/ EndSharedExpPlacement

SpecSession == Init /\ [][NextSession]_vars

\* lazy_grad on any node, in an arena of at most max nodes
LazyGradWithin(p, max) ==
  /\ Building
  /\ LET M == lazy_grad(Machine, p)
     IN /\ Commit(M, max)
        /\ last' = [NoCall EXCEPT !.op = "lazy_grad", !.node = p, !.ok = M.ok]
  /\ UNCHANGED <<compiled, nodes_at_begin, pc, tmp>>

\* the primal f32 fields w and v; their adjoints wg and vg are placed by
\* lazy_grad
GradFields == {4, 6}

\* the dense nodes
DenseNodes == {p \in NodeIds : nodes[p].type = "dense"}

\* primal and adjoint fields placed under a few dense nodes, and lazy_grad
NextGrad ==
  \/ \E p \in Containers :
       /\ Cardinality(DenseNodes) < MaxGradDenseNodes
       /\ CreateNode(p, <<0>>, <<3>>, "dense", MaxGradNodes)
  \/ \E p \in DenseNodes, f \in GradFields :
       PlaceWithin(p, f, <<>>, MaxGradNodes)
  \/ \E p \in NodeIds : LazyGradWithin(p, MaxGradNodes)

SpecGrad == Init /\ [][NextGrad]_vars

\* dense and sparse trees, the structure compiler and the ancestor query
NextQuery ==
  \/ \E p \in NodeIds, t \in WrapperKinds :
       CreateNode(p, <<0>>, <<3>>, t, MaxQueryNodes)
  \/ Compile
  \/ \E s \in NodeIds : GetLeastSparseAncestor(s)

SpecQuery == Init /\ [][NextQuery]_vars

----------------------------------------------------------------------------
(* Vocabulary of the properties *)

RECURSIVE Pow2(_)
Pow2(k) == IF k = 0 THEN 1 ELSE 2 * Pow2(k - 1)

\* the least power of two >= s, for 1 <= s <= 2^16
RoundedUp(s) ==
  CHOOSE q \in {Pow2(k) : k \in 0 .. 16} :
    q >= s /\ \A r \in {Pow2(k) : k \in 0 .. 16} : r >= s => q <= r

\* the exponent of a power of two
ExponentOf(q) == CHOOSE k \in 0 .. 16 : Pow2(k) = q

\* no axis is named twice
DistinctAxes(indices) ==
  \A i, j \in 1 .. Len(indices) : indices[i] = indices[j] => i = j

\* the last call was a create_node that returned a node
CreatedNode == last.op = "create_node" /\ last.ok

\* the size the last create_node call requested for the i-th listed axis
RequestedSize(i) ==
  IF Len(last.sizes) = 1 THEN last.sizes[1] ELSE last.sizes[i]

----------------------------------------------------------------------------
(* C1 *)

\* C1, as stated: after every successful create_node call with distinct
\* axes, n of the new node is the product over the size list handed in of
\* each size rounded up to a power of two, and every listed axis has an
\* active extractor with num_bits = log2(rounded size) and num_elements =
\* the size as requested.
C1_AsStated ==
  (CreatedNode /\ DistinctAxes(last.indices)) =>
    /\ nodes[last.res].n =
         SeqProduct([i \in 1 .. Len(last.sizes) |-> RoundedUp(last.sizes[i])])
    /\ \A i \in 1 .. Len(last.indices) :
         LET e == nodes[last.res].extractors[last.indices[i]]
         IN /\ e.active
            /\ e.num_bits = ExponentOf(RoundedUp(RequestedSize(i)))
            /\ e.num_elements = RequestedSize(i)

\* C1, amended: after every successful create_node call with distinct
\* axes, n of the new node is the product, over the listed axes, of the
\* size requested for that axis (the single size for every axis when one
\* size is broadcast) rounded up to the least power of two >= it, and every
\* listed axis has an active extractor with num_bits = log2(rounded size)
\* and num_elements = the size as requested.
C1_PromotedExtent ==
  (CreatedNode /\ DistinctAxes(last.indices)) =>
    /\ nodes[last.res].n =
         SeqProduct([i \in 1 .. Len(last.indices) |->
                       RoundedUp(RequestedSize(i))])
    /\ \A i \in 1 .. Len(last.indices) :
         LET e == nodes[last.res].extractors[last.indices[i]]
         IN /\ e.active
            /\ e.num_bits = ExponentOf(RoundedUp(RequestedSize(i)))
            /\ e.num_elements = RequestedSize(i)

\* C1 witness: dense(axis 0, size 10) returned a node with n = 16 whose
\* axis-0 extractor has 4 bits and 10 elements
C1_Witness ==
  /\ CreatedNode /\ last.type = "dense"
  /\ last.indices = <<0>> /\ last.sizes = <<10>>
  /\ nodes[last.res].n = 16
  /\ nodes[last.res].extractors[0].num_bits = 4
  /\ nodes[last.res].extractors[0].num_elements = 10

----------------------------------------------------------------------------
(* Vocabulary of the placement properties *)

\* s is a place node that holds a field's value
IsValueLeaf(s) == nodes[s].type = "place" /\ nodes[s].expr # 0

\* s is a place node made for an exponent: it holds no field
IsExponentLeaf(s) == nodes[s].type = "place" /\ nodes[s].expr = 0

\* the exponent type of the field s holds ("none" when it has none)
ExponentTypeAt(s) == get_exponent_type(FieldDt(nodes[s].expr))

\* the step is a place call for field f
PlaceCallOf(f) == last'.op = "place" /\ last'.field = f

\* the step binds no field and no node
BindingsUnchanged ==
  /\ snode' = snode
  /\ \A s \in 1 .. Len(nodes') :
       IF s \in NodeIds THEN nodes'[s].expr = nodes[s].expr
       ELSE nodes'[s].expr = 0

----------------------------------------------------------------------------
(* C2 *)

\* every bound field is bound to a place node that is bound back to it, and
\* every node bound to a field is the node that field is bound to
MutualBinding ==
  /\ \A f \in Fields : snode[f] # 0 =>
        /\ snode[f] \in NodeIds
        /\ nodes[snode[f]].type = "place"
        /\ nodes[snode[f]].expr = f
  /\ \A s \in NodeIds : nodes[s].expr # 0 =>
        /\ nodes[s].expr \in Fields
        /\ snode[nodes[s].expr] = s
  /\ \A f \in Fields : Cardinality({s \in NodeIds : nodes[s].expr = f}) <= 1

\* a place call for a field that is bound fails and binds nothing
PlacedTwiceFails ==
  \A f \in Fields :
    (PlaceCallOf(f) /\ snode[f] # 0) => (~last'.ok /\ BindingsUnchanged)

\* C2: placing a field that is already bound to a node fails on that call
\* (and binds nothing), so that in every state reached by place and
\* lazy_grad calls each field is bound to at most one place node, each place
\* node to at most one field, and the binding is mutual.
C2_BoundOnce == []MutualBinding /\ [][PlacedTwiceFails]_vars

\* C2 witness: a second place of a bound field has just failed, while a
\* gradient field bound by lazy_grad is bound too
C2_Witness ==
  /\ last.op = "place" /\ ~last.ok
  /\ snode[last.field] # 0
  /\ snode[5] # 0 /\ snode[4] # 0

----------------------------------------------------------------------------
(* C3 *)

\* the elements of a set of numbers in ascending order
RECURSIVE Ascending(_)
Ascending(S) ==
  IF S = {} THEN <<>>
  ELSE LET m == CHOOSE x \in S : \A y \in S : x <= y
       IN <<m>> \o Ascending(S \ {m})

\* nodes constructed since the begin of the active session
SinceBegin == {i \in NodeIds : i > nodes_at_begin}

\* exponent leaves made since the begin of the active session
SessionExponentLeaves == {i \in SinceBegin : IsExponentLeaf(i)}

\* value leaves of custom floats with an exponent, placed since the begin
\* of the active session
SessionSharers ==
  {i \in SinceBegin : IsValueLeaf(i) /\ ExponentTypeAt(i) # "none"}

\* C3: while a shared-exponent session is active, the fields with an
\* exponent type placed since its begin share one exponent leaf: exactly one
\* exponent leaf was made since the begin, it was made by the first such
\* placement (right before that field's value leaf), every one of the value
\* leaves points to it with exp_snode, and its exponent_users are exactly
\* those value leaves in placement order.
C3_OneSharedExponent ==
  (placing_shared_exp /\ SessionSharers # {}) =>
    \E e \in NodeIds :
      /\ SessionExponentLeaves = {e}
      /\ e + 1 = Head(Ascending(SessionSharers))
      /\ \A u \in SessionSharers :
           nodes[u].exp_snode = e /\ ExponentTypeAt(u) = nodes[e].dt
      /\ nodes[e].exponent_users = Ascending(SessionSharers)

\* C3 witness: two fields were placed in the active session and the
\* exponent leaf has both value leaves as its users
C3_Witness ==
  /\ placing_shared_exp
  /\ Cardinality(SessionSharers) = 2
  /\ currently_placing_exp_snode # 0
  /\ Len(nodes[currently_placing_exp_snode].exponent_users) = 2

----------------------------------------------------------------------------
(* C4 *)

BeginCall == last'.op = "begin"

EndCall == last'.op = "end"

\* the begin/end protocol, step by step
SessionProtocol ==
  /\ (BeginCall /\ placing_shared_exp) => ~last'.ok
  /\ (BeginCall /\ last'.ok) =>
        (~placing_shared_exp /\ placing_shared_exp'
           /\ currently_placing_exp_snode' = 0)
  /\ (EndCall /\ (~placing_shared_exp \/ SessionExponentLeaves = {})) =>
        ~last'.ok
  /\ (EndCall /\ last'.ok) =>
        (placing_shared_exp /\ ~placing_shared_exp'
           /\ currently_placing_exp_snode' = 0)
  /\ (placing_shared_exp' # placing_shared_exp) =>
        ((BeginCall \/ EndCall) /\ last'.ok)
  /\ (~last'.ok /\ (BeginCall \/ EndCall)) =>
        UNCHANGED <<placing_shared_exp, currently_placing_exp_snode>>

\* C4: begin fails while a session is active; end fails while none is
\* active or while no exponent node was made since the matching begin; an
\* end that returns clears the flag and the remembered exponent node; the
\* flag changes only by a begin or end that returns, so they alternate and
\* sessions never nest; outside a session no exponent node is remembered.
C4_SessionProtocol ==
  /\ [](~placing_shared_exp => currently_placing_exp_snode = 0)
  /\ [][SessionProtocol]_vars

\* C4 witness: a second session has just begun after a first one, in which
\* a leaf was placed, ended
C4_Witness ==
  /\ last.op = "begin" /\ last.ok /\ placing_shared_exp
  /\ \E s \in NodeIds : nodes[s].owns_shared_exponent

----------------------------------------------------------------------------
(* C9 *)

\* no exponent leaf is shared by value leaves of different exponent types
OneTypePerExponentLeaf ==
  \A u1, u2 \in NodeIds :
    (IsValueLeaf(u1) /\ IsValueLeaf(u2) /\ nodes[u1].exp_snode # 0
       /\ nodes[u1].exp_snode = nodes[u2].exp_snode) =>
      ExponentTypeAt(u1) = ExponentTypeAt(u2)

\* the step is a place of a field whose exponent type differs from the one
\* the active session has recorded
MismatchedPlace(f) ==
  /\ PlaceCallOf(f)
  /\ placing_shared_exp /\ currently_placing_exp_snode # 0
  /\ get_exponent_type(FieldDt(f)) # "none"
  /\ get_exponent_type(FieldDt(f)) # currently_placing_exp_snode_dtype

\* C9: in an active session that has an exponent node, placing a custom
\* float whose exponent type differs from the recorded one fails (binding
\* nothing), and no exponent leaf is ever shared by value leaves with
\* different exponent types.
C9_ExponentTypeMatch ==
  /\ []OneTypePerExponentLeaf
  /\ [][\A f \in Fields :
          MismatchedPlace(f) => (~last'.ok /\ BindingsUnchanged)]_vars

\* C9 witness: the place of an unbound field with another exponent type
\* has just failed in a session that has an exponent node with a user
C9_Witness ==
  /\ last.op = "place" /\ ~last.ok /\ snode[last.field] = 0
  /\ placing_shared_exp /\ currently_placing_exp_snode # 0
  /\ get_exponent_type(FieldDt(last.field)) \notin
        {"none", currently_placing_exp_snode_dtype}
  /\ nodes[currently_placing_exp_snode].exponent_users # <<>>

----------------------------------------------------------------------------
(* C5 *)

\* c lies below p and every node from c's owner up to p is no place node:
\* lazy_grad on p looks at c in one of its collecting loops
RECURSIVE VisitedFrom(_, _)
VisitedFrom(c, p) ==
  LET o == Owner(nodes, c)
  IN o # 0 /\ nodes[o].type # "place" /\ (o = p \/ VisitedFrom(o, p))

\* the step is a lazy_grad on the node on which the lazy_grad right before
\* it returned
LazyGradAgain ==
  /\ last.op = "lazy_grad" /\ last.ok
  /\ last'.op = "lazy_grad" /\ last'.node = last.node

\* after a lazy_grad that returned, every primal leaf it looked at whose
\* type needs a gradient has its adjoint bound to a leaf under the same owner
GradientsInPlace ==
  (last.op = "lazy_grad" /\ last.ok) =>
    \A c \in NodeIds :
      (IsValueLeaf(c) /\ VisitedFrom(c, last.node)
         /\ FieldIsPrimal(nodes[c].expr) /\ needs_grad(nodes[c].dt)) =>
        LET a == FieldAdjoint(nodes[c].expr)
        IN a # 0 /\ snode[a] # 0 /\ nodes[snode[a]].expr = a

\* C5: lazy_grad is idempotent: a second lazy_grad on the same node right
\* after one that returned returns too, adds no node and changes no binding
\* (it changes nothing at all), because after the first every primal leaf it
\* looks at already has its gradient leaf.
C5_LazyGradIdempotent ==
  /\ []GradientsInPlace
  /\ [][LazyGradAgain =>
          (last'.ok /\ nodes' = nodes /\ snode' = snode
             /\ counter' = counter)]_vars

\* C5 witness: lazy_grad has returned on a node under which it made the
\* gradient leaf of w next to the leaf of w
C5_Witness ==
  /\ last.op = "lazy_grad" /\ last.ok
  /\ snode[4] # 0 /\ snode[5] # 0
  /\ VisitedFrom(snode[4], last.node)
  /\ Owner(nodes, snode[5]) = Owner(nodes, snode[4])
  /\ snode[5] = Len(nodes)

----------------------------------------------------------------------------
(* Vocabulary of the tree properties *)

SparseKinds == {"pointer", "hash", "bitmasked", "dynamic"}

\* the nodes on the path from the root down to s, s included
RECURSIVE PathTo(_)
PathTo(s) ==
  LET o == Owner(nodes, s)
  IN IF o = 0 THEN {s} ELSE {s} \cup PathTo(o)

\* the sparse nodes on the path from the root down to s, s included
SparseOnPath(s) == {a \in PathTo(s) : nodes[a].type \in SparseKinds}

\* the sparse node on the path to s that is nearest to s
NearestSparse(s) ==
  CHOOSE a \in SparseOnPath(s) :
    \A b \in SparseOnPath(s) : nodes[b].depth <= nodes[a].depth

----------------------------------------------------------------------------
(* C6 *)

\* C6: for every node of every tree built by insertions, is_path_all_dense
\* is true iff no node on its root-to-self path (itself included) has kind
\* pointer, hash, bitmasked or dynamic.
C6_PathAllDense ==
  \A s \in NodeIds : nodes[s].is_path_all_dense <=> (SparseOnPath(s) = {})

\* C6 witness: a node of a dense kind below a sparse node, which is two
\* levels below the root, has is_path_all_dense false
C6_Witness ==
  \E s \in NodeIds :
    /\ nodes[s].type \notin SparseKinds
    /\ ~nodes[s].is_path_all_dense
    /\ nodes[s].depth = 3
    /\ nodes[Owner(nodes, s)].type \notin SparseKinds

----------------------------------------------------------------------------
(* C8 *)

\* C8: a create_node call for a hash node (with valid axes and sizes)
\* returns iff its caller is at depth 0, so every hash node of every
\* reachable tree is at depth 1, a direct child of the depth-0 node.
C8_HashUnderRoot ==
  /\ (last.op = "create_node" /\ last.type = "hash") =>
        (last.ok <=> nodes[last.node].depth = 0)
  /\ \A s \in NodeIds : nodes[s].type = "hash" =>
        (nodes[s].depth = 1 /\ nodes[Owner(nodes, s)].depth = 0)

\* C8 witness: a hash node asked of a node below the root was refused in a
\* tree that has a hash node under the root
C8_Witness ==
  /\ last.op = "create_node" /\ last.type = "hash" /\ ~last.ok
  /\ nodes[last.node].depth > 0
  /\ \E s \in NodeIds : nodes[s].type = "hash"

----------------------------------------------------------------------------
(* C7 *)

LeastSparseAncestorAsked == last.op = "get_least_sparse_ancestor"

\* C7, as stated: get_least_sparse_ancestor returns null on a node whose
\* path is all dense, and on any other node the sparse node nearest to it
\* on the path from itself upward.
C7_AsStated ==
  LeastSparseAncestorAsked =>
    /\ last.ok
    /\ last.res = IF SparseOnPath(last.node) = {} THEN 0
                  ELSE NearestSparse(last.node)

\* C7, amended: get_least_sparse_ancestor returns null on a node whose path
\* is all dense and the node itself on a sparse node; on any other node it
\* returns the sparse node nearest to it on the path upward once the
\* structure compiler has set the parent links, and fails before that,
\* while parent is still null.
C7_LeastSparseAncestor ==
  LeastSparseAncestorAsked =>
    IF SparseOnPath(last.node) = {} THEN last.ok /\ last.res = 0
    ELSE IF nodes[last.node].type \in SparseKinds
         THEN last.ok /\ last.res = last.node
    ELSE IF compiled
         THEN last.ok /\ last.res = NearestSparse(last.node)
    ELSE ~last.ok

\* C7 witness: in a compiled tree the query on a dense node returned its
\* sparse parent, above which there is another sparse node
C7_Witness ==
  /\ LeastSparseAncestorAsked /\ last.ok /\ compiled
  /\ nodes[last.node].type \notin SparseKinds
  /\ last.res = Owner(nodes, last.node)
  /\ Cardinality(SparseOnPath(last.node)) = 2

----------------------------------------------------------------------------
(* C10 *)

\* no two constructed nodes share an id
UniqueIds ==
  \A i, j \in NodeIds : nodes[i].id = nodes[j].id => i = j

\* no step changes the id of a constructed node
IdsKept == \A i \in NodeIds : nodes'[i].id = nodes[i].id

\* C10: every constructed node gets its id from the one atomically
\* incremented counter, so no two nodes share an id in any interleaving of
\* constructors run by several threads, and the id of a node never changes
\* after its construction.
C10_UniqueIds == []UniqueIds /\ [][IdsKept]_vars

\* C10 witness: two threads are inside the constructor at once, each past
\* its fetch, after another node was constructed
C10_Witness ==
  /\ \E t, u \in Threads : t # u /\ pc[t] = "fetched" /\ pc[u] = "fetched"
  /\ Len(nodes) >= 2

----------------------------------------------------------------------------
(* C11 *)

RECURSIVE Power(_, _)
Power(b, e) == IF e = 0 THEN 1 ELSE b * Power(b, e - 1)

\* the last call was a create_node handed one size
BroadcastCall == last.op = "create_node" /\ Len(last.sizes) = 1

\* the step is a create_node call whose size list has neither one entry
\* nor as many entries as the axis list
SizeCountMismatch ==
  /\ last'.op = "create_node"
  /\ Len(last'.sizes) \notin {1, Len(last'.indices)}

\* a create_node handed one size that returned gave every listed axis that
\* size, and n is the rounded size to the power of the number of listed axes
BroadcastIdentical ==
  (BroadcastCall /\ last.ok) =>
    LET s == last.sizes[1]
        L == Len(last.indices)
    IN /\ nodes[last.res].n = Power(RoundedUp(s), L)
       /\ \A i \in 1 .. L :
            LET e == nodes[last.res].extractors[last.indices[i]]
            IN /\ e.active
               /\ e.num_bits = ExponentOf(RoundedUp(s))
               /\ e.num_elements = s

\* C11: a create_node call handed an axis list of length L and one size
\* gives every listed axis the same num_bits and num_elements (those of the
\* single size) and n = (the size rounded up to a power of two)^L; a call
\* whose size list has neither 1 nor L entries fails before it inserts any
\* node (the tree and the counter are as before the call).
C11_Broadcast ==
  /\ []BroadcastIdentical
  /\ [][SizeCountMismatch =>
          (~last'.ok /\ nodes' = nodes /\ counter' = counter)]_vars

\* C11 witness: a node asked with two axes and the one size 3 has n = 16
\* and both extractors with 2 bits and 3 elements
C11_Witness ==
  /\ BroadcastCall /\ last.ok
  /\ last.indices = <<0, 1>> /\ last.sizes = <<3>>
  /\ nodes[last.res].n = 16
  /\ \A a \in {0, 1} :
       /\ nodes[last.res].extractors[a].num_bits = 2
       /\ nodes[last.res].extractors[a].num_elements = 3

----------------------------------------------------------------------------
(* C12 *)

\* C12, as stated: in every tree reachable by builder calls made on any
\* existing node, no node of kind place has a child.
C12_AsStated ==
  \A s \in NodeIds : nodes[s].type = "place" => nodes[s].ch = <<>>

----------------------------------------------------------------------------
(* C13 *)

\* C13, as stated: the exp_snode of every place leaf that has one is a
\* place node owned by the same node as the leaf.
C13_AsStated ==
  \A s \in NodeIds :
    (nodes[s].type = "place" /\ nodes[s].exp_snode # 0) =>
      /\ nodes[nodes[s].exp_snode].type = "place"
      /\ Owner(nodes, nodes[s].exp_snode) = Owner(nodes, s)

----------------------------------------------------------------------------
(* C14 *)

\* the root has no child of kind place
NoPlaceUnderRoot ==
  \A r \in NodeIds : nodes[r].type = "root" =>
    \A c \in Range(nodes[r].ch) : nodes[c].type # "place"

\* the step is a place call on the root that returned
PlacedOnRoot ==
  /\ last'.op = "place" /\ last'.ok
  /\ nodes[last'.node].type = "root"

\* what a place on the root that returned has done: one new child of the
\* root, a dense node with n = 1 and no active extractor, whose children
\* are the new leaves: the value leaf last, a new exponent leaf before it
RedirectedUnderDense ==
  LET r == last'.node
      d == Len(nodes) + 1
      v == Len(nodes')
  IN /\ nodes'[r].ch = Append(nodes[r].ch, d)
     /\ nodes'[d].type = "dense" /\ nodes'[d].depth = nodes[r].depth + 1
     /\ nodes'[d].n = 1
     /\ \A a \in Axes : ~nodes'[d].extractors[a].active
     /\ nodes'[d].ch = [i \in 1 .. (v - d) |-> d + i]
     /\ \A c \in (d + 1) .. v : nodes'[c].type = "place"
     /\ v \in {d + 1, d + 2}
     /\ nodes'[v].expr = last'.field /\ snode'[last'.field] = v
     /\ (v = d + 2) =>
          /\ nodes'[d + 1].expr = 0
          /\ nodes'[d + 1].dt = get_exponent_type(FieldDt(last'.field))
          /\ nodes'[v].exp_snode = d + 1
     /\ \A i \in NodeIds \ {r} : nodes'[i].ch = nodes[i].ch

\* C14: a place called on the root never makes a place leaf a direct child
\* of the root: it inserts one new zero-axis dense child (n = 1, no active
\* extractor) under the root and puts the field's leaves (a new exponent
\* leaf, if one is made, then the value leaf) under that child; in every
\* reachable tree the root has no child of kind place.
C14_RootRedirect ==
  /\ []NoPlaceUnderRoot
  /\ [][PlacedOnRoot => RedirectedUnderDense]_vars

\* C14 witness: a custom float was just placed on the root: its value leaf
\* and the exponent leaf before it are the children of a dense child of the
\* root
C14_Witness ==
  /\ last.op = "place" /\ last.ok /\ nodes[last.node].type = "root"
  /\ nodes[last.res].exp_snode = last.res - 1
  /\ nodes[Owner(nodes, last.res)].type = "dense"
  /\ nodes[Owner(nodes, last.res)].ch = <<last.res - 1, last.res>>
  /\ Owner(nodes, Owner(nodes, last.res)) = last.node

----------------------------------------------------------------------------
(* C15 *)

\* the step is a lazy_grad call that returned
LazyGradReturned == last'.op = "lazy_grad" /\ last'.ok

\* a lies strictly below b
RECURSIVE Below(_, _)
Below(a, b) ==
  LET o == Owner(nodes, a) IN o # 0 /\ (o = b \/ Below(o, b))

\* lazy_grad called on p runs its loops on q: q is no place node, and it is
\* p or a child of a node the loops run on
RECURSIVE RunsOn(_, _)
RunsOn(q, p) ==
  /\ nodes[q].type # "place"
  /\ (q = p \/ (Owner(nodes, q) # 0 /\ RunsOn(Owner(nodes, q), p)))

\* before the call, c is a place node whose field is primal, needs a
\* gradient and has no gradient leaf
WantsGrad(c) ==
  /\ IsValueLeaf(c)
  /\ FieldIsPrimal(nodes[c].expr) /\ needs_grad(nodes[c].dt)
  /\ ~(FieldAdjoint(nodes[c].expr) # 0
         /\ snode[FieldAdjoint(nodes[c].expr)] # 0)

\* the children the call appended to q
AppendedTo(q) ==
  SubSeq(nodes'[q].ch, Len(nodes[q].ch) + 1, Len(nodes'[q].ch))

\* q keeps its children and gets, behind them, one new leaf per child that
\* wanted a gradient, in the order of those children: a place node bound to
\* the child's adjoint, with no index offsets, constructed one after another
GradLeavesAppended(q) ==
  LET prim == SelectSeq(nodes[q].ch, WantsGrad)
      new == AppendedTo(q)
  IN /\ SubSeq(nodes'[q].ch, 1, Len(nodes[q].ch)) = nodes[q].ch
     /\ Len(new) = Len(prim)
     /\ \A i \in 1 .. Len(new) :
          /\ new[i] > Len(nodes)
          /\ nodes'[new[i]].type = "place"
          /\ nodes'[new[i]].expr = FieldAdjoint(nodes[prim[i]].expr)
          /\ snode'[FieldAdjoint(nodes[prim[i]].expr)] = new[i]
          /\ nodes'[new[i]].index_offsets = <<>>
          /\ nodes'[new[i]].ch = <<>>
     /\ \A i, j \in 1 .. Len(new) : i < j => new[i] < new[j]

\* the order of the traversal, seen in the order of construction of the new
\* leaves: those of the nodes below q come before those of q, and those in
\* the subtree of an earlier child of q before those of a later child
ChildrenFirstInOrder(p) ==
  \A q \in NodeIds : RunsOn(q, p) =>
    /\ \A q2 \in NodeIds : (RunsOn(q2, p) /\ Below(q2, q)) =>
          \A a \in Range(AppendedTo(q2)), b \in Range(AppendedTo(q)) : a < b
    /\ \A i, j \in 1 .. Len(nodes[q].ch) : i < j =>
          \A q1, q2 \in NodeIds :
            (/\ RunsOn(q1, p) /\ RunsOn(q2, p)
             /\ (q1 = nodes[q].ch[i] \/ Below(q1, nodes[q].ch[i]))
             /\ (q2 = nodes[q].ch[j] \/ Below(q2, nodes[q].ch[j]))) =>
              \A a \in Range(AppendedTo(q1)), b \in Range(AppendedTo(q2)) :
                a < b

\* what a lazy_grad on p that returned has done
LazyGradEffect(p) ==
  /\ \A q \in NodeIds :
       IF RunsOn(q, p) THEN GradLeavesAppended(q)
       ELSE nodes'[q].ch = nodes[q].ch
  /\ \A i \in (Len(nodes) + 1) .. Len(nodes') :
       \E q \in NodeIds : RunsOn(q, p) /\ i \in Range(AppendedTo(q))
  /\ ChildrenFirstInOrder(p)
  /\ nodes[p].type = "place" => (nodes' = nodes /\ snode' = snode)

\* C15: a lazy_grad that returns has, on the node it was called on and on
\* every node below it reached through nodes that are no place nodes,
\* children first and in insertion order, appended to that node (not to the
\* primal leaf), behind its existing children, one gradient leaf for each
\* place child that was primal, needed a gradient and had none, in the
\* insertion order of the primal leaves and with no index offsets; on a
\* place node it changes nothing.
C15_LazyGradOrder ==
  [][LazyGradReturned => LazyGradEffect(last'.node)]_vars

\* C15 witness: lazy_grad has returned on a dense node that holds a primal
\* leaf and a dense child holding the other primal leaf; the gradient leaf
\* under the child was constructed first, the one under the node last
C15_Witness ==
  /\ last.op = "lazy_grad" /\ last.ok /\ nodes[last.node].type = "dense"
  /\ \E f, g \in {4, 6} :
       /\ f # g /\ snode[f] # 0 /\ snode[g] # 0
       /\ Owner(nodes, snode[f]) = last.node
       /\ Owner(nodes, Owner(nodes, snode[g])) = last.node
       /\ snode[FieldAdjoint(g)] = Len(nodes) - 1
       /\ snode[FieldAdjoint(f)] = Len(nodes)
       /\ Owner(nodes, snode[FieldAdjoint(g)]) = Owner(nodes, snode[g])
       /\ Owner(nodes, snode[FieldAdjoint(f)]) = last.node

----------------------------------------------------------------------------
(* C16 *)

\* node p has only leaves as children, the first of them an exponent leaf
LeavesWithExponentFirst(p) ==
  /\ nodes[p].type # "place" /\ nodes[p].ch # <<>>
  /\ \A c \in Range(nodes[p].ch) :
       nodes[c].type = "place" /\ nodes[c].ch = <<>>
  /\ IsExponentLeaf(nodes[p].ch[1])

\* C16, as stated, on the case it names: a lazy_grad called on a node
\* whose children are leaves made by place, an exponent leaf among them,
\* returns without a fatal failure (the exponent leaf being skipped).
C16_AsStated ==
  (last.op = "lazy_grad" /\ LeavesWithExponentFirst(last.node)) => last.ok

----------------------------------------------------------------------------
(* C17 *)

\* the step is a place call that failed because the field is bound, or
\* because its exponent type differs from the one the session recorded
FailedPlace ==
  /\ last'.op = "place" /\ ~last'.ok /\ last'.field # 0
  /\ \/ snode[last'.field] # 0
     \/ MismatchedPlace(last'.field)

\* the step changes neither a field binding nor the session state
BindingsAndSessionKept ==
  /\ snode' = snode
  /\ UNCHANGED <<placing_shared_exp, currently_placing_exp_snode,
                 currently_placing_exp_snode_dtype>>

\* the step adds to the tree one childless zero-axis dense child of r and
\* nothing else
OnlyDenseChildAdded(r) ==
  LET d == Len(nodes) + 1
  IN /\ Len(nodes') = d
     /\ SubSeq(nodes', 1, Len(nodes)) =
          [nodes EXCEPT ![r].ch = Append(@, d)]
     /\ nodes'[d] = [SNodeCtor(counter, nodes[r].depth + 1, "dense") EXCEPT
                       !.is_path_all_dense = nodes[r].is_path_all_dense]
     /\ counter' = counter + 1

\* C17, as stated: a place call that fails because the field is already
\* placed or because of an exponent type mismatch leaves the tree, the
\* field bindings and the session state as before the call, on every node
\* kind, the root included.
C17_AsStated ==
  [][FailedPlace =>
       (nodes' = nodes /\ counter' = counter /\ BindingsAndSessionKept)]_vars

\* C17, amended: such a failing place call leaves the field bindings and
\* the session state as before the call on every node; it leaves the tree
\* as before on every node that is not the root, and called on the root it
\* leaves behind the childless zero-axis dense child it inserted under the
\* root before the checks, and nothing else.
C17_FailedPlaceFrame ==
  [][FailedPlace =>
       /\ BindingsAndSessionKept
       /\ IF nodes[last'.node].type = "root"
          THEN OnlyDenseChildAdded(last'.node)
          ELSE nodes' = nodes /\ counter' = counter]_vars

\* C17 witness: in a session, the place of a field with another exponent
\* type has just failed on a dense node that holds the leaves of the
\* session, and the tree ends with those leaves
C17_Witness ==
  /\ last.op = "place" /\ ~last.ok /\ snode[last.field] = 0
  /\ nodes[last.node].type = "dense"
  /\ placing_shared_exp /\ currently_placing_exp_snode # 0
  /\ currently_placing_exp_snode \in Range(nodes[last.node].ch)
  /\ nodes[Len(nodes)].type = "place"

----------------------------------------------------------------------------
(* C18 *)

\* C18, as stated: a create_node call that fails, for whatever reason,
\* leaves the children list of the node it was called on unchanged.
C18_AsStated ==
  [][(last'.op = "create_node" /\ ~last'.ok) =>
       nodes'[last'.node].ch = nodes[last'.node].ch]_vars

----------------------------------------------------------------------------
(* C19 *)

\* the product over the active extractors of node s of 2^num_bits
ExtentOfExtractors(s) ==
  SeqProduct([i \in 1 .. NumAxes |->
                IF nodes[s].extractors[i - 1].active
                THEN Pow2(nodes[s].extractors[i - 1].num_bits)
                ELSE 1])

\* C19, as stated: the node a create_node call returns has n equal to the
\* product over its active extractors of 2^num_bits, for every axis list,
\* one that names an axis more than once included.
C19_AsStated ==
  CreatedNode => nodes[last.res].n = ExtentOfExtractors(last.res)

----------------------------------------------------------------------------
(* C20 *)

\* an exponent node is remembered only while a session is active, and it
\* is an exponent leaf made since the begin of that session
RememberedSinceBegin ==
  currently_placing_exp_snode # 0 =>
    /\ placing_shared_exp
    /\ currently_placing_exp_snode \in SinceBegin
    /\ IsExponentLeaf(currently_placing_exp_snode)

\* a place that returns links its value leaf to an exponent leaf that
\* existed before the call only in a session, and only to a leaf made since
\* the begin of that session
ReusedOnlyWithinSession ==
  (last'.op = "place" /\ last'.ok) =>
    LET e == nodes'[last'.res].exp_snode
    IN (e # 0 /\ e \in NodeIds) => (placing_shared_exp /\ e \in SinceBegin)

\* every exponent leaf has a user; one with a user placed outside a
\* session has that user alone
SoleUserOutsideSession ==
  \A e \in NodeIds : IsExponentLeaf(e) =>
    /\ nodes[e].exponent_users # <<>>
    /\ \A u \in Range(nodes[e].exponent_users) : nodes[u].exp_snode = e
    /\ (\E u \in Range(nodes[e].exponent_users) :
          ~nodes[u].owns_shared_exponent) =>
         Len(nodes[e].exponent_users) = 1

====
